---- MODULE Spec2Model ----
(***************************************************************************)
(* The python-generators-0x00 streaming pipeline: seed.py (connection and  *)
(* CSV load), 0-stream_users.py, 1-batch_processing.py, 2-lazy_paginate.py *)
(* and stream_ages.py.  Every generator is a small state machine: one      *)
(* action per next() of its consumer (the body run from one suspension     *)
(* point to the next) and one per close() of a suspended generator.        *)
(* Also the sqlite context managers of python-context-async-perations-0x02 *)
(* (DatabaseConnection, ExecuteQuery) and the decorators of                *)
(* python-decorators-0x01 (with_db_connection, transactional).             *)
(***************************************************************************)
EXTENDS Integers, Sequences, FiniteSets, Bags, TLC

VARIABLES
    db,          \* state of the backing store, fixed during a run
    table,       \* rows of user_data in the store's iteration order
    conn,        \* per owner: counters of connection and cursor calls
    stdout,      \* what print() has written, in order
    su,          \* the stream_users() generator object
    sud,         \* the stream_user_data(connection) generator object
    touched,     \* user_ids another process inserted or deleted since the run began
    lite,        \* the sqlite database file: can it be opened, rows of users, a lock held by another connection
    cm,          \* a DatabaseConnection / ExecuteQuery context manager object
    tx,          \* the calls made of a with_db_connection(transactional(f)) function
    su2,         \* a second, independent stream_users() generator object
    sb,          \* the stream_users_in_batches(batch_size) generator object
    batch_size,  \* argument of stream_users_in_batches / batch_processing
    bp,          \* a running call of batch_processing(batch_size)
    sa,          \* the stream_user_ages() generator object
    caa,         \* a running call of calculate_average_age()
    lp,          \* the lazy_pagination(page_size) generator object
    page_size,   \* argument of lazy_pagination
    csv,         \* the rows of the CSV file at csv_path ("absent": no file)
    pending,     \* rows inserted on the seed connection and not yet committed
    uuids,       \* number of uuid4() values drawn so far
    loads        \* one record per finished insert_data call

vars == <<tx, cm, lite, touched, sud, db, table, conn, stdout, su, su2, sb, batch_size, bp, sa, caa, lp,
          page_size, csv, pending, uuids, loads>>

----------------------------------------------------------------------------
(* Bounds of the model *)

MaxRows == 3
MaxBatch == 3
MaxPage == 3
MaxAvgRows == 4
MaxCsvRows == 2
MaxAnyCsvRows == 2
MaxLoads == 2
MaxWrites == 2
MaxBlockWrites == 2
MaxCalls == 2

----------------------------------------------------------------------------
(* The store *)

DbStates == {"ok", "unreachable", "no_database", "no_table"}

Owners == {"su", "su2", "sb", "sa", "lp", "seed", "sud"}

NoConn == [attempts |-> 0, opened |-> 0, closed |-> 0,
           cursors |-> 0, cursorsClosed |-> 0, queries |-> 0]

MkRow(i, a) == [user_id |-> i, name |-> "n", email |-> i, age |-> a]

RECURSIVE Flatten(_)
Flatten(ss) == IF ss = << >> THEN << >> ELSE Head(ss) \o Flatten(Tail(ss))

RECURSIVE SeqBag(_)
SeqBag(s) == IF s = << >> THEN EmptyBag ELSE SetToBag({Head(s)}) (+) SeqBag(Tail(s))

CeilDiv(n, d) == (n + d - 1) \div d

TablesOver(ages, maxlen) ==
    UNION { { [i \in 1..n |-> MkRow(i, f[i])] : f \in [1..n -> ages] } : n \in 0..maxlen }

(* seed.connect_to_prodev: one mysql.connector.connect call; a             *)
(* mysql.connector.Error is printed and swallowed, None is returned.       *)
ConnectSucceeds == db \in {"ok", "no_table"}

(* connect_to_prodev with a second attempt after a failed one *)
connect_to_prodev_retry(c) ==
    [c EXCEPT !.attempts = @ + (IF ConnectSucceeds THEN 1 ELSE 2),
              !.opened = @ + (IF ConnectSucceeds THEN 1 ELSE 0)]

connect_to_prodev(c) ==
    [c EXCEPT !.attempts = @ + 1,
              !.opened = @ + (IF ConnectSucceeds THEN 1 ELSE 0)]

ConnectDiag == IF ConnectSucceeds THEN << >> ELSE << [kind |-> "connect_error"] >>

(* conn.cursor(...) followed by cursor.execute(query) *)
OpenCursorAndExecute(c) == [c EXCEPT !.cursors = @ + 1, !.queries = @ + 1]

(* Lines 23-24 with conn.close() forgotten *)
CloseCursorAndConn_cursorOnly(c) == [c EXCEPT !.cursorsClosed = @ + 1]

(* cursor.close() followed by conn.close() *)
CloseCursorAndConn(c) == [c EXCEPT !.cursorsClosed = @ + 1, !.closed = @ + 1]

IsOpen(c) == c.opened - c.closed > 0

GenInit == [pc |-> "unstarted", pos |-> 0, out |-> << >>, err |-> "none"]

----------------------------------------------------------------------------
(* 0-stream_users.py *)

(* What the loop yields for a row: the row (0-stream_users.py line 21) or  *)
(* row["age"] (stream_ages.py line 22).                                    *)
Item(col, row) == IF col = "age" THEN row.age ELSE row

(* One next() on the generator.  Lines 13-21 from "unstarted", lines 20-24 *)
(* from the yield of line 21.                                              *)
StreamUsersStep(g, c, col) ==
    IF g.pc = "unstarted"
    THEN IF ~ConnectSucceeds
         THEN [gen |-> [g EXCEPT !.pc = "done"], con |-> connect_to_prodev(c)]
         ELSE IF db = "no_table"
              THEN [gen |-> [g EXCEPT !.pc = "failed", !.err = "ProgrammingError"],
                    con |-> OpenCursorAndExecute(connect_to_prodev(c))]
              ELSE IF Len(table) = 0
                   THEN [gen |-> [g EXCEPT !.pc = "done"],
                         con |-> CloseCursorAndConn(OpenCursorAndExecute(connect_to_prodev(c)))]
                   ELSE [gen |-> [g EXCEPT !.pc = "suspended", !.pos = 1,
                                           !.out = Append(@, Item(col, table[1]))],
                         con |-> OpenCursorAndExecute(connect_to_prodev(c))]
    ELSE IF g.pos < Len(table)
         THEN [gen |-> [g EXCEPT !.pos = @ + 1, !.out = Append(@, Item(col, table[g.pos + 1]))],
               con |-> c]
         ELSE [gen |-> [g EXCEPT !.pc = "done"], con |-> CloseCursorAndConn(c)]

(* close() (or garbage collection) of a generator: GeneratorExit is raised *)
(* at the yield; the body has no try/finally, so nothing else runs.        *)
GeneratorClose(g) == [g EXCEPT !.pc = "closed"]

stream_users_next ==
    /\ su.pc \in {"unstarted", "suspended"}
    /\ LET r == StreamUsersStep(su, conn["su"], "*") IN
        /\ su' = r.gen
        /\ conn' = [conn EXCEPT !["su"] = r.con]
        /\ stdout' = IF su.pc = "unstarted" THEN stdout \o ConnectDiag ELSE stdout
    /\ UNCHANGED <<tx, cm, lite, touched, sud, su2, db, table, sb, batch_size, bp, sa, caa, lp, page_size,
                   csv, pending, uuids, loads>>

stream_users_close ==
    /\ su.pc \in {"unstarted", "suspended"}
    /\ su' = GeneratorClose(su)
    /\ UNCHANGED <<tx, cm, lite, touched, sud, su2, db, table, conn, stdout, sb, batch_size, bp, sa, caa, lp,
                   page_size, csv, pending, uuids, loads>>

(* A second call of stream_users(): its own generator object and, through *)
(* its own connect_to_prodev() call, its own connection.                   *)
second_stream_users_next_sharedConn ==
    /\ su2.pc \in {"unstarted", "suspended"}
    /\ LET r == StreamUsersStep(su2, conn["su"], "*") IN
        /\ su2' = r.gen
        /\ conn' = [conn EXCEPT !["su"] = r.con]
        /\ stdout' = IF su2.pc = "unstarted" THEN stdout \o ConnectDiag ELSE stdout
    /\ UNCHANGED <<tx, cm, lite, touched, sud, db, table, su, sb, batch_size, bp, sa, caa, lp, page_size,
                   csv, pending, uuids, loads>>

second_stream_users_next ==
    /\ su2.pc \in {"unstarted", "suspended"}
    /\ LET r == StreamUsersStep(su2, conn["su2"], "*") IN
        /\ su2' = r.gen
        /\ conn' = [conn EXCEPT !["su2"] = r.con]
        /\ stdout' = IF su2.pc = "unstarted" THEN stdout \o ConnectDiag ELSE stdout
    /\ UNCHANGED <<tx, cm, lite, touched, sud, db, table, su, sb, batch_size, bp, sa, caa, lp, page_size,
                   csv, pending, uuids, loads>>

second_stream_users_close ==
    /\ su2.pc \in {"unstarted", "suspended"}
    /\ su2' = GeneratorClose(su2)
    /\ UNCHANGED <<tx, cm, lite, touched, sud, db, table, conn, stdout, su, sb, batch_size, bp, sa, caa, lp,
                   page_size, csv, pending, uuids, loads>>

----------------------------------------------------------------------------
(* 1-batch_processing.py *)

SbInit == [pc |-> "unstarted", pos |-> 0, batch |-> << >>, out |-> << >>, err |-> "none"]

(* The for-loop of lines 24-28 resumed at cursor position pos with buffer  *)
(* batch: rows are appended until len(batch) == batch_size (full, the      *)
(* yield of line 27) or the cursor is exhausted.                           *)
RECURSIVE ReadIntoBatch(_, _)
ReadIntoBatch(pos, batch) ==
    IF pos >= Len(table)
    THEN [pos |-> pos, batch |-> batch, full |-> FALSE]
    ELSE LET b2 == Append(batch, table[pos + 1]) IN
         IF Len(b2) = batch_size
         THEN [pos |-> pos + 1, batch |-> b2, full |-> TRUE]
         ELSE ReadIntoBatch(pos + 1, b2)

(* AfterRead without lines 30-31: the rows left in the buffer at the end   *)
(* of the cursor are dropped.                                              *)
AfterRead_dropRemainder(g, c, r) ==
    IF r.full
    THEN [gen |-> [g EXCEPT !.pc = "yield27", !.pos = r.pos, !.batch = r.batch,
                            !.out = Append(@, r.batch)],
          con |-> c]
    ELSE [gen |-> [g EXCEPT !.pc = "done", !.pos = r.pos, !.batch = r.batch],
          con |-> CloseCursorAndConn(c)]

(* AfterRead with line 30 dropped: the remainder is yielded even when it   *)
(* is empty.                                                               *)
AfterRead_yieldEmpty(g, c, r) ==
    [gen |-> [g EXCEPT !.pc = IF r.full THEN "yield27" ELSE "yield31",
                       !.pos = r.pos, !.batch = r.batch, !.out = Append(@, r.batch)],
     con |-> c]

(* Lines 27-34 once the loop has stopped with r: yield the full batch      *)
(* (line 27), else yield the non-empty remainder (line 31), else close.    *)
AfterRead(g, c, r) ==
    IF r.full
    THEN [gen |-> [g EXCEPT !.pc = "yield27", !.pos = r.pos, !.batch = r.batch,
                            !.out = Append(@, r.batch)],
          con |-> c]
    ELSE IF r.batch # << >>
         THEN [gen |-> [g EXCEPT !.pc = "yield31", !.pos = r.pos, !.batch = r.batch,
                                 !.out = Append(@, r.batch)],
               con |-> c]
         ELSE [gen |-> [g EXCEPT !.pc = "done", !.pos = r.pos, !.batch = r.batch],
               con |-> CloseCursorAndConn(c)]

(* StreamBatchesStep with line 28 as batch.clear(): the generator keeps    *)
(* the list it has yielded, so every batch handed out shows what the       *)
(* buffer holds now.                                                       *)
StreamBatchesStep_reuseBuffer(g, c) ==
    IF g.pc = "unstarted"
    THEN IF ~ConnectSucceeds
         THEN [gen |-> [g EXCEPT !.pc = "done"], con |-> connect_to_prodev(c)]
         ELSE IF db = "no_table"
              THEN [gen |-> [g EXCEPT !.pc = "failed", !.err = "ProgrammingError"],
                    con |-> OpenCursorAndExecute(connect_to_prodev(c))]
              ELSE AfterRead(g, OpenCursorAndExecute(connect_to_prodev(c)),
                             ReadIntoBatch(0, << >>))
    ELSE IF g.pc = "yield27"
         THEN LET r == AfterRead(g, c, ReadIntoBatch(g.pos, << >>)) IN
              [gen |-> [r.gen EXCEPT !.out = [i \in DOMAIN @ |-> r.gen.batch]],
               con |-> r.con]
         ELSE [gen |-> [g EXCEPT !.pc = "done"], con |-> CloseCursorAndConn(c)]

(* One next() on stream_users_in_batches(batch_size). *)
StreamBatchesStep(g, c) ==
    IF g.pc = "unstarted"
    THEN IF ~ConnectSucceeds
         THEN [gen |-> [g EXCEPT !.pc = "done"], con |-> connect_to_prodev(c)]
         ELSE IF db = "no_table"
              THEN [gen |-> [g EXCEPT !.pc = "failed", !.err = "ProgrammingError"],
                    con |-> OpenCursorAndExecute(connect_to_prodev(c))]
              ELSE AfterRead(g, OpenCursorAndExecute(connect_to_prodev(c)),
                             ReadIntoBatch(0, << >>))
    ELSE IF g.pc = "yield27"
         THEN AfterRead(g, c, ReadIntoBatch(g.pos, << >>))
         ELSE [gen |-> [g EXCEPT !.pc = "done"], con |-> CloseCursorAndConn(c)]

SbLive == {"unstarted", "yield27", "yield31"}

stream_users_in_batches_next ==
    /\ sb.pc \in SbLive
    /\ LET r == StreamBatchesStep(sb, conn["sb"]) IN
        /\ sb' = r.gen
        /\ conn' = [conn EXCEPT !["sb"] = r.con]
        /\ stdout' = IF sb.pc = "unstarted" THEN stdout \o ConnectDiag ELSE stdout
    /\ UNCHANGED <<tx, cm, lite, touched, sud, su2, db, table, su, batch_size, bp, sa, caa, lp, page_size,
                   csv, pending, uuids, loads>>

stream_users_in_batches_close ==
    /\ sb.pc \in SbLive
    /\ sb' = GeneratorClose(sb)
    /\ UNCHANGED <<tx, cm, lite, touched, sud, su2, db, table, conn, stdout, su, batch_size, bp, sa, caa, lp,
                   page_size, csv, pending, uuids, loads>>

(* batch_processing(batch_size) is a plain function (its body has no       *)
(* yield): it drives its own stream_users_in_batches generator, prints     *)
(* the users it selects and returns None.  out is what a consumer          *)
(* iterating over the call would have received.                            *)
BpInit == [pc |-> "idle", out |-> << >>, ret |-> "unset", err |-> "none"]

Selected(user) == user.age > 25

RECURSIVE PrintSelected(_)
PrintSelected(batch) ==
    IF batch = << >> THEN << >>
    ELSE (IF Selected(Head(batch)) THEN << [kind |-> "user", row |-> Head(batch)] >>
          ELSE << >>) \o PrintSelected(Tail(batch))

(* One iteration of loop 2 (line 42): pull the next batch, then loop 3.    *)
batch_processing ==
    /\ bp.pc \in {"idle", "running"}
    /\ LET r == StreamBatchesStep(sb, conn["sb"]) IN
        /\ sb' = r.gen
        /\ conn' = [conn EXCEPT !["sb"] = r.con]
        /\ IF r.gen.pc \in {"yield27", "yield31"}
           THEN /\ bp' = [bp EXCEPT !.pc = "running"]
                /\ stdout' = stdout \o (IF sb.pc = "unstarted" THEN ConnectDiag ELSE << >>)
                                    \o PrintSelected(r.gen.batch)
           ELSE /\ stdout' = stdout \o (IF sb.pc = "unstarted" THEN ConnectDiag ELSE << >>)
                /\ bp' = IF r.gen.pc = "failed"
                         THEN [bp EXCEPT !.pc = "failed", !.err = r.gen.err]
                         ELSE [bp EXCEPT !.pc = "returned", !.ret = "None"]
    /\ UNCHANGED <<tx, cm, lite, touched, sud, su2, db, table, su, batch_size, sa, caa, lp, page_size,
                   csv, pending, uuids, loads>>

----------------------------------------------------------------------------
(* stream_ages.py *)

(* stream_user_ages(): the body of stream_users with "SELECT age" and      *)
(* yield row["age"].                                                       *)
stream_user_ages_next ==
    /\ sa.pc \in {"unstarted", "suspended"}
    /\ LET r == StreamUsersStep(sa, conn["sa"], "age") IN
        /\ sa' = r.gen
        /\ conn' = [conn EXCEPT !["sa"] = r.con]
        /\ stdout' = IF sa.pc = "unstarted" THEN stdout \o ConnectDiag ELSE stdout
    /\ UNCHANGED <<tx, cm, lite, touched, sud, su2, db, table, su, sb, batch_size, bp, caa, lp, page_size,
                   csv, pending, uuids, loads>>

stream_user_ages_close ==
    /\ sa.pc \in {"unstarted", "suspended"}
    /\ sa' = GeneratorClose(sa)
    /\ UNCHANGED <<tx, cm, lite, touched, sud, su2, db, table, conn, stdout, su, sb, batch_size, bp, caa, lp,
                   page_size, csv, pending, uuids, loads>>

(* What a call hands back to its caller: nothing yet, None, or a number    *)
(* kept as the fraction num / den.                                         *)
NotReturned == [kind |-> "unset", num |-> 0, den |-> 1]

ReturnsNone == [kind |-> "None", num |-> 0, den |-> 1]

ReturnsNumber(n, d) == [kind |-> "number", num |-> n, den |-> d]

CaaInit == [pc |-> "idle", total |-> 0, count |-> 0, divided |-> FALSE,
            ret |-> NotReturned, err |-> "none"]

(* Format2f that cuts the digits after the second decimal *)
Format2f_truncate(total, count) == (total * 100) \div count

(* f"{average:.2f}" of average = total / count (ages are DECIMAL(5,0), so  *)
(* the quotient is a Decimal): the number of hundredths printed, rounded   *)
(* half to even.                                                           *)
Format2f(total, count) ==
    LET q == (total * 100) \div count
        r == (total * 100) % count
    IN  IF 2 * r > count THEN q + 1
        ELSE IF 2 * r = count THEN q + (q % 2)
        ELSE q

(* AverageTail without the guard of lines 36-38: total / count is          *)
(* evaluated with count = 0 and raises ZeroDivisionError.                  *)
AverageTail_noGuard(c) ==
    IF c.count = 0
    THEN [call |-> [c EXCEPT !.pc = "failed", !.err = "ZeroDivisionError", !.divided = TRUE],
          out |-> << >>]
    ELSE [call |-> [c EXCEPT !.pc = "returned", !.ret = ReturnsNone, !.divided = TRUE],
          out |-> << [kind |-> "average", hundredths |-> Format2f(c.total, c.count)] >>]

(* Lines 36-41, after the loop. *)
AverageTail(c) ==
    IF c.count = 0
    THEN [call |-> [c EXCEPT !.pc = "returned", !.ret = ReturnsNone],
          out |-> << [kind |-> "no_users"] >>]
    ELSE [call |-> [c EXCEPT !.pc = "returned", !.ret = ReturnsNone, !.divided = TRUE],
          out |-> << [kind |-> "average", hundredths |-> Format2f(c.total, c.count)] >>]

(* One iteration of loop 2 (line 32): pull the next age; on exhaustion     *)
(* run lines 36-41; an exception of the generator propagates.              *)
calculate_average_age ==
    /\ caa.pc \in {"idle", "looping"}
    /\ LET r == StreamUsersStep(sa, conn["sa"], "age")
           diag == IF sa.pc = "unstarted" THEN ConnectDiag ELSE << >>
       IN
        /\ sa' = r.gen
        /\ conn' = [conn EXCEPT !["sa"] = r.con]
        /\ IF r.gen.pc = "suspended"
           THEN /\ caa' = [caa EXCEPT !.pc = "looping",
                                      !.total = @ + r.gen.out[Len(r.gen.out)],
                                      !.count = @ + 1]
                /\ stdout' = stdout \o diag
           ELSE IF r.gen.pc = "failed"
                THEN /\ caa' = [caa EXCEPT !.pc = "failed", !.err = r.gen.err]
                     /\ stdout' = stdout \o diag
                ELSE LET t == AverageTail(caa) IN
                     /\ caa' = t.call
                     /\ stdout' = stdout \o diag \o t.out
    /\ UNCHANGED <<tx, cm, lite, touched, sud, su2, db, table, su, sb, batch_size, bp, lp, page_size,
                   csv, pending, uuids, loads>>

----------------------------------------------------------------------------
(* 2-lazy_paginate.py *)

(* calls counts the paginate_users calls made, pulls the next() calls the  *)
(* consumer has issued.                                                    *)
LpInit == [pc |-> "unstarted", offset |-> 0, out |-> << >>, calls |-> 0, pulls |-> 0,
           err |-> "none"]

Min(a, b) == IF a < b THEN a ELSE b

(* LimitOffset with OFFSET taken as the 1-based number of the row before   *)
(* the page: every page starts one row late.                               *)
LimitOffset_oneBased(limit, offset) ==
    SubSeq(table, offset + 2, Min(offset + 1 + limit, Len(table)))

(* "SELECT * FROM user_data LIMIT limit OFFSET offset" on the table *)
LimitOffset(limit, offset) == SubSeq(table, offset + 1, Min(offset + limit, Len(table)))

(* paginate_users with line 17 (connection.close()) forgotten *)
paginate_users_noClose(limit, offset, c) ==
    IF ~ConnectSucceeds
    THEN [rows |-> << >>, err |-> "AttributeError", con |-> connect_to_prodev(c)]
    ELSE IF db = "no_table" \/ limit < 0
         THEN [rows |-> << >>, err |-> "ProgrammingError",
               con |-> OpenCursorAndExecute(connect_to_prodev(c))]
         ELSE [rows |-> LimitOffset(limit, offset), err |-> "none",
               con |-> OpenCursorAndExecute(connect_to_prodev(c))]

(* paginate_users that remembers what was yielded: the page is made of    *)
(* the first rows of the table no earlier page contained.                  *)
paginate_users_skipSeen(limit, offset, c) ==
    IF ~ConnectSucceeds
    THEN [rows |-> << >>, err |-> "AttributeError", con |-> connect_to_prodev(c)]
    ELSE IF db = "no_table" \/ limit < 0
         THEN [rows |-> << >>, err |-> "ProgrammingError",
               con |-> OpenCursorAndExecute(connect_to_prodev(c))]
         ELSE LET seen == { Flatten(lp.out)[i] : i \in 1..Len(Flatten(lp.out)) }
                  unseen == SelectSeq(table, LAMBDA r : r \notin seen)
              IN  [rows |-> SubSeq(unseen, 1, Min(limit, Len(unseen))), err |-> "none",
                   con |-> [OpenCursorAndExecute(connect_to_prodev(c))
                                EXCEPT !.closed = @ + 1]]

(* paginate_users(page_size, offset), lines 13-18.  connect_to_prodev may  *)
(* return None (AttributeError at line 14); a missing table or a negative  *)
(* LIMIT makes execute raise with the connection still open.               *)
paginate_users(limit, offset, c) ==
    IF ~ConnectSucceeds
    THEN [rows |-> << >>, err |-> "AttributeError", con |-> connect_to_prodev(c)]
    ELSE IF db = "no_table" \/ limit < 0
         THEN [rows |-> << >>, err |-> "ProgrammingError",
               con |-> OpenCursorAndExecute(connect_to_prodev(c))]
         ELSE [rows |-> LimitOffset(limit, offset), err |-> "none",
               con |-> [OpenCursorAndExecute(connect_to_prodev(c)) EXCEPT !.closed = @ + 1]]

(* NextOffset with line 29 as offset += 1 *)
NextOffset_byOne(g) == IF g.pc = "unstarted" THEN 0 ELSE g.offset + 1

(* Where offset stands when the loop body runs again: line 23 on the first *)
(* next(), line 29 after a yield.                                          *)
NextOffset(g) == IF g.pc = "unstarted" THEN 0 ELSE g.offset + page_size

(* LazyPaginationStep with the test of lines 26-27 placed after the yield: *)
(* the empty page is yielded before the loop ends.                         *)
LazyPaginationStep_yieldEmpty(g, c) ==
    LET off == NextOffset(g)
        r == paginate_users(page_size, off, c)
    IN  IF r.err # "none"
        THEN [gen |-> [g EXCEPT !.pc = "failed", !.err = r.err, !.offset = off,
                                !.calls = @ + 1],
              con |-> r.con]
        ELSE IF g.pc = "suspended" /\ g.out[Len(g.out)] = << >>
             THEN [gen |-> [g EXCEPT !.pc = "done"], con |-> c]
             ELSE [gen |-> [g EXCEPT !.pc = "suspended", !.offset = off, !.calls = @ + 1,
                                     !.out = Append(@, r.rows)],
                   con |-> r.con]

(* LazyPaginationStep that fetches the following page ahead of the pull    *)
(* that asks for it: two paginate_users calls in one next().               *)
LazyPaginationStep_prefetch(g, c) ==
    LET off == NextOffset(g)
        r == paginate_users(page_size, off, c)
        ahead == paginate_users(page_size, off + page_size, r.con)
    IN  IF r.err # "none"
        THEN [gen |-> [g EXCEPT !.pc = "failed", !.err = r.err, !.offset = off,
                                !.calls = @ + 1],
              con |-> r.con]
        ELSE IF r.rows = << >>
             THEN [gen |-> [g EXCEPT !.pc = "done", !.offset = off, !.calls = @ + 1],
                   con |-> r.con]
             ELSE [gen |-> [g EXCEPT !.pc = "suspended", !.offset = off, !.calls = @ + 2,
                                     !.out = Append(@, r.rows)],
                   con |-> ahead.con]

(* One next() on lazy_pagination(page_size): lines 25-28. *)
LazyPaginationStep(g, c) ==
    LET off == NextOffset(g)
        r == paginate_users(page_size, off, c)
    IN  IF r.err # "none"
        THEN [gen |-> [g EXCEPT !.pc = "failed", !.err = r.err, !.offset = off,
                                !.calls = @ + 1],
              con |-> r.con]
        ELSE IF r.rows = << >>
             THEN [gen |-> [g EXCEPT !.pc = "done", !.offset = off, !.calls = @ + 1],
                   con |-> r.con]
             ELSE [gen |-> [g EXCEPT !.pc = "suspended", !.offset = off, !.calls = @ + 1,
                                     !.out = Append(@, r.rows)],
                   con |-> r.con]

lazy_pagination_next ==
    /\ lp.pc \in {"unstarted", "suspended"}
    /\ LET r == LazyPaginationStep(lp, conn["lp"]) IN
        /\ lp' = [r.gen EXCEPT !.pulls = @ + 1]
        /\ conn' = [conn EXCEPT !["lp"] = r.con]
        /\ stdout' = stdout \o ConnectDiag
    /\ UNCHANGED <<tx, cm, lite, touched, sud, su2, db, table, su, sb, batch_size, bp, sa, caa, page_size,
                   csv, pending, uuids, loads>>

lazy_pagination_close ==
    /\ lp.pc \in {"unstarted", "suspended"}
    /\ lp' = GeneratorClose(lp)
    /\ UNCHANGED <<tx, cm, lite, touched, sud, su2, db, table, conn, stdout, su, sb, batch_size, bp, sa, caa,
                   page_size, csv, pending, uuids, loads>>

(* Another client of the store commits an INSERT between two pages.  The  *)
(* query of line 15 has no ORDER BY: the new row takes any place in the    *)
(* store's order.                                                          *)
other_process_insert ==
    /\ Cardinality(touched) < MaxWrites
    /\ \E at \in 0..Len(table) :
          LET id == 10 + Cardinality(touched)
              new == MkRow(id, 25)
          IN  /\ table' = SubSeq(table, 1, at) \o << new >> \o SubSeq(table, at + 1, Len(table))
              /\ touched' = touched \cup {id}
    /\ UNCHANGED <<tx, cm, lite, sud, su2, db, conn, stdout, su, sb, batch_size, bp, sa, caa, lp,
                   page_size, csv, pending, uuids, loads>>

(* Another client of the store commits a DELETE between two pages. *)
other_process_delete ==
    /\ Cardinality(touched) < MaxWrites
    /\ \E at \in 1..Len(table) :
          /\ table' = SubSeq(table, 1, at - 1) \o SubSeq(table, at + 1, Len(table))
          /\ touched' = touched \cup {table[at].user_id}
    /\ UNCHANGED <<tx, cm, lite, sud, su2, db, conn, stdout, su, sb, batch_size, bp, sa, caa, lp,
                   page_size, csv, pending, uuids, loads>>

----------------------------------------------------------------------------
(* seed.py: insert_data *)

(* A value DictReader leaves None: the line has fewer fields than the header *)
PyNone == "<None>"

AgeTexts == {"", "abc", "inf", "30", "25.7"}

(* int(float(age_raw)), line 110: float() rejects text that is no number   *)
(* (ValueError), int() truncates and rejects an infinity (OverflowError).  *)
IntOfFloat(age_raw) ==
    CASE age_raw = "30" -> [exc |-> "none", value |-> 30]
      [] age_raw = "25.7" -> [exc |-> "none", value |-> 25]
      [] age_raw = "inf" -> [exc |-> "OverflowError", value |-> 0]
      [] OTHER -> [exc |-> "ValueError", value |-> 0]

(* uuid.uuid4(): the k-th value drawn, distinct from every id of a file *)
uuid4(k) == 100 + k

(* The SELECT of line 116 without "OR email = %s" *)
Exists_idOnly(rows, user_id, email) ==
    \E i \in 1..Len(rows) : rows[i].user_id = user_id

(* "SELECT 1 FROM user_data WHERE user_id = %s OR email = %s LIMIT 1" *)
Exists(rows, user_id, email) ==
    \E i \in 1..Len(rows) : rows[i].user_id = user_id \/ rows[i].email = email

(* The loop of lines 101-126 over the remaining lines of the file.  acc:   *)
(* visible (the rows the connection sees), ins (rows inserted by this      *)
(* call), uu (uuid4 values drawn), out (prints), exc (the exception that   *)
(* left the loop).                                                         *)
RECURSIVE InsertLoop(_, _)
InsertLoop(rows, acc) ==
    IF rows = << >> THEN acc
    ELSE LET row == Head(rows)
             gen == row.user_id = 0
             user_id == IF gen THEN uuid4(acc.uu + 1) ELSE row.user_id
             acc1 == [acc EXCEPT !.uu = IF gen THEN @ + 1 ELSE @]
         IN  IF row.age = PyNone
             THEN [acc1 EXCEPT !.exc = "AttributeError"]
             ELSE IF row.age = ""
             THEN InsertLoop(Tail(rows),
                             [acc1 EXCEPT !.out = Append(@, [kind |-> "skip_missing_age"])])
             ELSE LET a == IntOfFloat(row.age) IN
                  IF a.exc = "ValueError"
                  THEN InsertLoop(Tail(rows),
                                  [acc1 EXCEPT !.out = Append(@, [kind |-> "skip_invalid_age"])])
                  ELSE IF a.exc # "none"
                  THEN [acc1 EXCEPT !.exc = a.exc]
                  ELSE IF Exists(acc1.visible, user_id, row.email)
                  THEN InsertLoop(Tail(rows), acc1)
                  ELSE LET new == [user_id |-> user_id, name |-> row.name,
                                   email |-> row.email, age |-> a.value]
                       IN  InsertLoop(Tail(rows),
                                      [acc1 EXCEPT !.visible = Append(@, new),
                                                   !.ins = Append(@, new)])

LoadStart == [visible |-> table \o pending, ins |-> << >>, uu |-> uuids,
              out |-> << >>, exc |-> "none"]

(* insert_data with connection.commit() moved into the loop, after each    *)
(* INSERT: rows inserted before an exception are already committed.        *)
insert_data_commitEachRow ==
    /\ Len(loads) < MaxLoads
    /\ IF ~csv.exists
       THEN /\ stdout' = Append(stdout, [kind |-> "csv_not_found"])
            /\ loads' = Append(loads, [found |-> FALSE, before |-> table \o pending, inserted |-> << >>, committed |-> FALSE,
                                       exc |-> "none", table |-> table,
                                       visible |-> table \o pending])
            /\ UNCHANGED <<tx, cm, lite, touched, sud, su2, table, pending, uuids, conn>>
       ELSE LET r == InsertLoop(csv.rows, LoadStart) IN
            /\ uuids' = r.uu
            /\ IF r.exc = "none"
               THEN /\ table' = r.visible
                    /\ pending' = << >>
                    /\ conn' = [conn EXCEPT !["seed"].cursors = @ + 1,
                                            !["seed"].cursorsClosed = @ + 1]
                    /\ stdout' = stdout \o r.out \o
                          << IF r.ins # << >> THEN [kind |-> "inserted", n |-> Len(r.ins)]
                             ELSE [kind |-> "no_new_rows"] >>
               ELSE /\ table' = (table \o pending) \o r.ins
                    /\ pending' = << >>
                    /\ conn' = [conn EXCEPT !["seed"].cursors = @ + 1]
                    /\ stdout' = stdout \o r.out \o << [kind |-> "error_inserting"] >>
            /\ loads' = Append(loads, [found |-> TRUE, before |-> table \o pending, inserted |-> r.ins,
                                       committed |-> r.exc = "none", exc |-> r.exc,
                                       table |-> table', visible |-> table' \o pending'])
    /\ UNCHANGED <<tx, cm, lite, touched, sud, su2, db, su, sb, batch_size, bp, sa, caa, lp, page_size, csv>>

(* insert_data(connection, csv_path), one whole call. *)
insert_data ==
    /\ Len(loads) < MaxLoads
    /\ IF ~csv.exists
       THEN /\ stdout' = Append(stdout, [kind |-> "csv_not_found"])
            /\ loads' = Append(loads, [found |-> FALSE, before |-> table \o pending, inserted |-> << >>, committed |-> FALSE,
                                       exc |-> "none", table |-> table,
                                       visible |-> table \o pending])
            /\ UNCHANGED <<tx, cm, lite, touched, sud, su2, table, pending, uuids, conn>>
       ELSE LET r == InsertLoop(csv.rows, LoadStart) IN
            /\ uuids' = r.uu
            /\ IF r.exc = "none"
               THEN /\ table' = r.visible
                    /\ pending' = << >>
                    /\ conn' = [conn EXCEPT !["seed"].cursors = @ + 1,
                                            !["seed"].cursorsClosed = @ + 1]
                    /\ stdout' = stdout \o r.out \o
                          << IF r.ins # << >> THEN [kind |-> "inserted", n |-> Len(r.ins)]
                             ELSE [kind |-> "no_new_rows"] >>
               ELSE /\ table' = table
                    /\ pending' = pending \o r.ins
                    /\ conn' = [conn EXCEPT !["seed"].cursors = @ + 1]
                    /\ stdout' = stdout \o r.out \o << [kind |-> "error_inserting"] >>
            /\ loads' = Append(loads, [found |-> TRUE, before |-> table \o pending, inserted |-> r.ins,
                                       committed |-> r.exc = "none", exc |-> r.exc,
                                       table |-> table', visible |-> table' \o pending'])
    /\ UNCHANGED <<tx, cm, lite, touched, sud, su2, db, su, sb, batch_size, bp, sa, caa, lp, page_size, csv>>

(* The caller closes its connection and opens a new one between two calls: *)
(* the store rolls back what the old connection had not committed.         *)
seed_reconnect ==
    /\ loads # << >>
    /\ Len(loads) < MaxLoads
    /\ pending # << >>
    /\ pending' = << >>
    /\ conn' = [conn EXCEPT !["seed"].closed = @ + 1, !["seed"].attempts = @ + 1,
                            !["seed"].opened = @ + 1]
    /\ UNCHANGED <<tx, cm, lite, touched, sud, su2, db, table, stdout, su, sb, batch_size, bp, sa, caa, lp, page_size,
                   csv, uuids, loads>>

----------------------------------------------------------------------------
(* seed.py: stream_user_data *)

(* The rows the caller's connection sees: committed rows and its own       *)
(* uncommitted ones.                                                       *)
Visible == table \o pending

(* The finally of lines 148-149 *)
CloseCursor(c) == [c EXCEPT !.cursorsClosed = @ + 1]

(* The loop of lines 146-147 at cursor position g.pos: an error raised by  *)
(* the fetch (lost), the next row, or the end of the cursor; every way out *)
(* but the yield runs the finally.                                         *)
FetchNext(g, c, lost) ==
    IF lost
    THEN [gen |-> [g EXCEPT !.pc = "failed", !.err = "OperationalError"],
          con |-> CloseCursor(c)]
    ELSE IF g.pos < Len(Visible)
         THEN [gen |-> [g EXCEPT !.pc = "suspended", !.pos = @ + 1,
                                 !.out = Append(@, Visible[g.pos + 1])],
               con |-> c]
         ELSE [gen |-> [g EXCEPT !.pc = "done"], con |-> CloseCursor(c)]

(* One next() on stream_user_data(connection).  The first one runs lines   *)
(* 143-145: connection.cursor() outside the try, execute inside it.  c     *)
(* counts the calls stream_user_data makes: on its cursor and, were there  *)
(* any, on the connection.                                                 *)
StreamUserDataStep(g, c, lost) ==
    IF g.pc = "unstarted"
    THEN LET c1 == OpenCursorAndExecute(c) IN
         IF db = "no_table"
         THEN [gen |-> [g EXCEPT !.pc = "failed", !.err = "ProgrammingError"],
               con |-> CloseCursor(c1)]
         ELSE FetchNext(g, c1, lost)
    ELSE FetchNext(g, c, lost)

stream_user_data_next ==
    /\ sud.pc \in {"unstarted", "suspended"}
    /\ \E lost \in BOOLEAN :
          LET r == StreamUserDataStep(sud, conn["sud"], lost) IN
          /\ sud' = r.gen
          /\ conn' = [conn EXCEPT !["sud"] = r.con]
    /\ UNCHANGED <<tx, cm, lite, touched, su2, db, table, stdout, su, sb, batch_size, bp, sa, caa, lp,
                   page_size, csv, pending, uuids, loads>>

(* close() with the finally left out: GeneratorExit at the yield ends the  *)
(* generator and nothing else runs.                                        *)
stream_user_data_close_noFinally ==
    /\ sud.pc \in {"unstarted", "suspended"}
    /\ sud' = GeneratorClose(sud)
    /\ UNCHANGED <<tx, cm, lite, touched, su2, db, table, conn, stdout, su, sb, batch_size, bp, sa, caa, lp,
                   page_size, csv, pending, uuids, loads>>

(* close() (or garbage collection): at the yield of line 147 GeneratorExit *)
(* runs the finally; a generator that never started has no cursor yet.     *)
stream_user_data_close ==
    /\ sud.pc \in {"unstarted", "suspended"}
    /\ sud' = GeneratorClose(sud)
    /\ conn' = [conn EXCEPT !["sud"] =
                    IF sud.pc = "suspended" THEN CloseCursor(@) ELSE @]
    /\ UNCHANGED <<tx, cm, lite, touched, su2, db, table, stdout, su, sb, batch_size, bp, sa, caa, lp,
                   page_size, csv, pending, uuids, loads>>

----------------------------------------------------------------------------
(* python-context-async-perations-0x02: DatabaseConnection, ExecuteQuery *)

(* The database file.  file: "ok", "unopenable" (sqlite3.connect raises)   *)
(* or "not_a_database" (the first statement raises); rows: committed rows  *)
(* of users; locked: another connection holds a read lock, so the COMMIT   *)
(* of a write transaction raises OperationalError (database is locked).    *)
SqliteFiles == {"ok", "unopenable", "not_a_database"}

LiteInit == [file |-> "ok", rows |-> 0, locked |-> FALSE]

Classes == {"DatabaseConnection", "ExecuteQuery"}

(* The query given to ExecuteQuery: none, a SELECT, an INSERT, or text the *)
(* database rejects.  DatabaseConnection takes no query.                   *)
Queries == {"none", "select", "insert", "bad"}

(* What ends the body of the with-block: "none" (it ran to its end) or the *)
(* exception it raised.                                                    *)
BlockOutcomes == {"none", "ValueError", "KeyboardInterrupt"}

CmInit == [cls |-> "DatabaseConnection", query |-> "none", pc |-> "none",
           opened |-> 0, closed |-> 0, cursors |-> 0, cursorsClosed |-> 0,
           writes |-> 0, exitlog |-> << >>, block |-> "none", raised |-> "none"]

(* Rows of sample_users *)
SampleUsers(cls) == IF cls = "ExecuteQuery" THEN 8 ELSE 4

(* __enter__: connect, cursor, CREATE TABLE, sample rows with their commit *)
(* on an empty table, then (ExecuteQuery) the query.  A sqlite3.Error      *)
(* closes the connection, if there is one, and is raised again.            *)
Enter(m, l) ==
    IF l.file = "unopenable"
    THEN [cm |-> [m EXCEPT !.pc = "enter_failed", !.raised = "OperationalError"],
          lite |-> l]
    ELSE LET m1 == [m EXCEPT !.opened = @ + 1, !.cursors = @ + 1]
             seeded == l.file = "ok" /\ l.rows = 0 /\ ~l.locked
             l1 == IF seeded THEN [l EXCEPT !.rows = SampleUsers(m.cls)] ELSE l
             err == IF l.file = "not_a_database" THEN "DatabaseError"
                    ELSE IF l.rows = 0 /\ l.locked THEN "OperationalError"
                    ELSE IF m.query = "bad" THEN "OperationalError"
                    ELSE "none"
         IN  IF err # "none"
             THEN [cm |-> [m1 EXCEPT !.pc = "enter_failed", !.raised = err,
                                     !.closed = @ + 1],
                   lite |-> l1]
             ELSE [cm |-> [m1 EXCEPT !.pc = "entered",
                                     !.writes = IF m.query = "insert" THEN 1 ELSE 0],
                   lite |-> l1]

(* __exit__(exc_type, exc_val, exc_tb): cursor.close(), then commit() or   *)
(* rollback(), then connection.close(), return False.  commit() raises     *)
(* when the transaction has writes and the file is locked; the statements  *)
(* after it are then not run.                                              *)
Exit(m, l, outcome) ==
    LET m1 == [m EXCEPT !.pc = "exited", !.block = outcome, !.cursorsClosed = @ + 1] IN
    IF outcome = "none"
    THEN IF m.writes > 0 /\ l.locked
         THEN [cm |-> [m1 EXCEPT !.exitlog = << "cursor.close", "commit_raised" >>,
                                 !.raised = "OperationalError"],
               lite |-> l]
         ELSE [cm |-> [m1 EXCEPT !.exitlog = << "cursor.close", "commit", "close" >>,
                                 !.closed = @ + 1, !.writes = 0],
               lite |-> [l EXCEPT !.rows = @ + m.writes]]
    ELSE [cm |-> [m1 EXCEPT !.exitlog = << "cursor.close", "rollback", "close" >>,
                            !.closed = @ + 1, !.writes = 0, !.raised = outcome],
          lite |-> l]

(* "with DatabaseConnection(...) as cursor:" / "with ExecuteQuery(...) as  *)
(* results:" reaches its body or fails in __enter__.                       *)
with_enter ==
    /\ cm.pc = "init"
    /\ LET r == Enter(cm, lite) IN cm' = r.cm /\ lite' = r.lite
    /\ UNCHANGED <<tx, touched, sud, su2, db, table, conn, stdout, su, sb, batch_size,
                   bp, sa, caa, lp, page_size, csv, pending, uuids, loads>>

(* The body of the with-block runs a writing statement on the cursor that  *)
(* DatabaseConnection.__enter__ returned.                                  *)
with_block_execute ==
    /\ cm.pc = "entered"
    /\ cm.cls = "DatabaseConnection"
    /\ cm.writes < MaxBlockWrites
    /\ cm' = [cm EXCEPT !.writes = @ + 1]
    /\ UNCHANGED <<tx, lite, touched, sud, su2, db, table, conn, stdout, su, sb,
                   batch_size, bp, sa, caa, lp, page_size, csv, pending, uuids, loads>>

(* The body ends, normally or with an exception, and __exit__ runs. *)
with_exit ==
    /\ cm.pc = "entered"
    /\ \E outcome \in BlockOutcomes :
          LET r == Exit(cm, lite, outcome) IN cm' = r.cm /\ lite' = r.lite
    /\ UNCHANGED <<tx, touched, sud, su2, db, table, conn, stdout, su, sb, batch_size,
                   bp, sa, caa, lp, page_size, csv, pending, uuids, loads>>

(* Another connection to the same file starts or ends a read. *)
other_connection_lock ==
    /\ lite.file = "ok"
    /\ lite' = [lite EXCEPT !.locked = ~@]
    /\ UNCHANGED <<tx, cm, touched, sud, su2, db, table, conn, stdout, su, sb,
                   batch_size, bp, sa, caa, lp, page_size, csv, pending, uuids, loads>>

----------------------------------------------------------------------------
(* python-decorators-0x01: with_db_connection, transactional *)

(* How a call of the wrapped function f ends: it returns, or raises an     *)
(* exception that derives from Exception (ValueError, sqlite3's            *)
(* IntegrityError) or one that does not (KeyboardInterrupt, SystemExit).   *)
FExceptions == {"ValueError", "IntegrityError"}
FBaseExceptions == {"KeyboardInterrupt", "SystemExit"}
FOutcomes == {"return"} \cup FExceptions \cup FBaseExceptions

TxInit == [calls |-> 0, f |-> "none", writes |-> 0, before |-> 0, opened |-> 0,
           log |-> << >>, raised |-> "none"]

(* transactional's wrapper, 2-transactional.py lines 22-29, around an f    *)
(* that ends with outcome after it made writes changes: commit() after a   *)
(* return; "except Exception" (the exception of a failed commit included)  *)
(* rolls back and raises again; other exceptions pass through.             *)
transactional(outcome, writes, l) ==
    IF outcome = "return"
    THEN IF writes > 0 /\ l.locked
         THEN [log |-> << "commit_raised", "rollback" >>, raised |-> "OperationalError",
               lite |-> l]
         ELSE [log |-> << "commit" >>, raised |-> "none",
               lite |-> [l EXCEPT !.rows = @ + writes]]
    ELSE IF outcome \in FExceptions
         THEN [log |-> << "rollback" >>, raised |-> outcome, lite |-> l]
         ELSE [log |-> << >>, raised |-> outcome, lite |-> l]

(* with_db_connection with conn.close() after the call and no finally *)
with_db_connection_noFinally(outcome, writes, l) ==
    IF l.file = "unopenable"
    THEN [log |-> << >>, raised |-> "OperationalError", lite |-> l, opened |-> 0]
    ELSE LET r == transactional(outcome, writes, l) IN
         [log |-> IF r.raised = "none" THEN Append(r.log, "close") ELSE r.log,
          raised |-> r.raised, lite |-> r.lite, opened |-> 1]

(* with_db_connection's wrapper, lines 8-14: connect, call, and close in   *)
(* the finally.                                                            *)
with_db_connection(outcome, writes, l) ==
    IF l.file = "unopenable"
    THEN [log |-> << >>, raised |-> "OperationalError", lite |-> l, opened |-> 0]
    ELSE LET r == transactional(outcome, writes, l) IN
         [log |-> Append(r.log, "close"), raised |-> r.raised, lite |-> r.lite,
          opened |-> 1]

(* One call of a function decorated @with_db_connection @transactional. *)
wrapper_call ==
    /\ tx.calls < MaxCalls
    /\ \E outcome \in FOutcomes, writes \in 0..MaxBlockWrites :
          /\ (lite.file # "ok" => writes = 0)
          /\ LET r == with_db_connection(outcome, writes, lite) IN
             /\ tx' = [calls |-> tx.calls + 1, f |-> outcome, writes |-> writes,
                       before |-> lite.rows, opened |-> r.opened, log |-> r.log,
                       raised |-> r.raised]
             /\ lite' = r.lite
    /\ UNCHANGED <<cm, touched, sud, su2, db, table, conn, stdout, su, sb, batch_size,
                   bp, sa, caa, lp, page_size, csv, pending, uuids, loads>>

----------------------------------------------------------------------------
(* Initial states and specifications *)

(* The caller of insert_data passes a connection it has opened *)
SeedConn == [NoConn EXCEPT !.attempts = 1, !.opened = 1]

(* Nothing has run yet *)
Quiet ==
    /\ conn = [o \in Owners |-> IF o = "seed" THEN SeedConn ELSE NoConn]
    /\ stdout = << >>
    /\ su = GenInit
    /\ sud = GenInit
    /\ touched = {}
    /\ cm = CmInit
    /\ tx = TxInit
    /\ su2 = GenInit
    /\ sb = SbInit
    /\ bp = BpInit
    /\ sa = GenInit
    /\ caa = CaaInit
    /\ lp = LpInit
    /\ pending = << >>
    /\ uuids = 0
    /\ loads = << >>

Idle == Quiet /\ lite = LiteInit

NoCsv == [exists |-> FALSE, rows |-> << >>]

(* Row streams pulled directly by a consumer: stream_users,                *)
(* stream_users_in_batches and stream_user_ages over one table.            *)
InitRows ==
    /\ Idle
    /\ db \in DbStates
    /\ table \in TablesOver({25, 30}, MaxRows)
    /\ (db # "ok" => table = << >>)
    /\ batch_size \in -1..MaxBatch
    /\ page_size = 1
    /\ csv = NoCsv

NextRows ==
    \/ stream_users_next
    \/ stream_users_close
    \/ stream_users_in_batches_next
    \/ stream_users_in_batches_close
    \/ stream_user_ages_next
    \/ stream_user_ages_close

Spec == InitRows /\ [][NextRows]_vars

(* batch_processing(batch_size) *)
InitFilter ==
    /\ Idle
    /\ db \in DbStates
    /\ table \in TablesOver({24, 25, 26}, MaxRows)
    /\ (db # "ok" => table = << >>)
    /\ batch_size \in -1..MaxBatch
    /\ page_size = 1
    /\ csv = NoCsv

NextFilter == batch_processing

SpecFilter == InitFilter /\ [][NextFilter]_vars

(* calculate_average_age() *)
InitAvg ==
    /\ Idle
    /\ db \in DbStates
    /\ table \in TablesOver({22, 28, 30, 34}, MaxAvgRows)
    /\ (db # "ok" => table = << >>)
    /\ batch_size = 1
    /\ page_size = 1
    /\ csv = NoCsv

NextAvg == calculate_average_age

SpecAvg == InitAvg /\ [][NextAvg]_vars

(* lazy_pagination(page_size), and a stream_users() pass over the same table *)
InitPage ==
    /\ Idle
    /\ db \in DbStates
    /\ table \in TablesOver({25, 30}, MaxRows)
    /\ (db # "ok" => table = << >>)
    /\ batch_size = 1
    /\ page_size \in -1..MaxPage
    /\ csv = NoCsv

NextPage == lazy_pagination_next \/ lazy_pagination_close \/ stream_users_next

SpecPage == InitPage /\ [][NextPage]_vars

(* A consumer that keeps pulling and never abandons the sequence *)
NextPull == lazy_pagination_next

SpecPull == InitPage /\ [][NextPull]_vars /\ WF_vars(lazy_pagination_next)

(* Two stream_users() passes and a lazy_pagination sequence, their pulls   *)
(* and closes interleaved in any order.                                    *)
NextTwo ==
    \/ stream_users_next
    \/ stream_users_close
    \/ second_stream_users_next
    \/ second_stream_users_close
    \/ lazy_pagination_next
    \/ lazy_pagination_close

SpecTwo == InitPage /\ [][NextTwo]_vars

(* insert_data on the seed connection *)
CsvRows == [user_id : {0, 1}, name : {"n"}, email : {1, 2},
            age : AgeTexts \cup {PyNone}]

CsvFiles == UNION { [1..n -> CsvRows] : n \in 0..MaxCsvRows }

SeedTables == { << >>, << [user_id |-> 1, name |-> "n", email |-> 2, age |-> 40] >> }

InitSeed ==
    /\ Idle
    /\ db = "ok"
    /\ table \in SeedTables
    /\ batch_size = 1
    /\ page_size = 1
    /\ csv \in {NoCsv} \cup { [exists |-> TRUE, rows |-> f] : f \in CsvFiles }

NextSeed == insert_data \/ seed_reconnect

SpecSeed == InitSeed /\ [][NextSeed]_vars

(* stream_user_data pulled by a consumer on the connection that ran        *)
(* insert_data before.                                                     *)
InitUserData ==
    /\ Idle
    /\ db \in {"ok", "no_table"}
    /\ table \in TablesOver({25, 30}, MaxRows)
    /\ (db # "ok" => table = << >>)
    /\ batch_size = 1
    /\ page_size = 1
    /\ csv \in {NoCsv, [exists |-> TRUE,
                        rows |-> << [user_id |-> 0, name |-> "n", email |-> 9, age |-> "30"],
                                    [user_id |-> 0, name |-> "n", email |-> 8, age |-> "inf"] >>]}

NextUserData == stream_user_data_next \/ stream_user_data_close \/ insert_data

SpecUserData == InitUserData /\ [][NextUserData]_vars

(* lazy_pagination pulled to its end while another process writes to the   *)
(* table between the pulls.                                                *)
InitWrites ==
    /\ Idle
    /\ db = "ok"
    /\ table \in TablesOver({25}, MaxRows)
    /\ batch_size = 1
    /\ page_size \in 1..MaxPage
    /\ csv = NoCsv

NextWrites == lazy_pagination_next \/ other_process_insert \/ other_process_delete

SpecWrites == InitWrites /\ [][NextWrites]_vars

(* The files a run starts on: usable and empty or filled, or unusable *)
LiteFiles == { [file |-> "ok", rows |-> n, locked |-> FALSE] : n \in {0, 4} }
                 \cup { [file |-> f, rows |-> 0, locked |-> FALSE] :
                            f \in SqliteFiles \ {"ok"} }

(* One with-statement over a context manager of either class *)
InitWith ==
    /\ Quiet
    /\ lite \in LiteFiles
    /\ db = "ok"
    /\ table = << >>
    /\ batch_size = 1
    /\ page_size = 1
    /\ csv = NoCsv

(* DatabaseConnection(db_name) / ExecuteQuery(db_name, query, params):     *)
(* __init__ keeps its arguments and sets connection and cursor to None.    *)
with_init ==
    /\ cm.pc = "none"
    /\ \E c \in Classes, q \in Queries :
          /\ (c = "DatabaseConnection" => q = "none")
          /\ cm' = [cm EXCEPT !.cls = c, !.query = q, !.pc = "init"]
    /\ UNCHANGED <<tx, lite, touched, sud, su2, db, table, conn, stdout, su, sb,
                   batch_size, bp, sa, caa, lp, page_size, csv, pending, uuids, loads>>

NextWith == with_init \/ with_enter \/ with_block_execute \/ with_exit \/ other_connection_lock

SpecWith == InitWith /\ [][NextWith]_vars

(* Calls of a decorated function, one after the other *)
NextTx == wrapper_call \/ other_connection_lock

SpecTx == InitWith /\ [][NextTx]_vars

(* insert_data called with different files, one after the other *)
AnyRows == { [user_id |-> 1, name |-> "n", email |-> 1, age |-> "30"],
             [user_id |-> 1, name |-> "n", email |-> 2, age |-> "30"],
             [user_id |-> 0, name |-> "n", email |-> 2, age |-> "30"],
             [user_id |-> 0, name |-> "n", email |-> 1, age |-> "inf"] }

AnyFiles == UNION { [1..n -> AnyRows] : n \in 0..MaxAnyCsvRows }

(* The caller's next call names another file (csv_path, line 86) *)
csv_rewrite ==
    /\ loads # << >>
    /\ Len(loads) < MaxLoads
    /\ \E f \in AnyFiles :
          /\ f # csv.rows
          /\ csv' = [exists |-> TRUE, rows |-> f]
    /\ UNCHANGED <<tx, cm, lite, touched, sud, su2, db, table, conn, stdout, su, sb, batch_size, bp, sa, caa, lp,
                   page_size, pending, uuids, loads>>

InitSeedAny ==
    /\ Idle
    /\ db = "ok"
    /\ table \in SeedTables
    /\ batch_size = 1
    /\ page_size = 1
    /\ csv \in { [exists |-> TRUE, rows |-> f] : f \in AnyFiles }

NextSeedAny == insert_data \/ seed_reconnect \/ csv_rewrite

SpecSeedAny == InitSeedAny /\ [][NextSeedAny]_vars

----------------------------------------------------------------------------
(* Properties of the row streams (specification Spec) *)

Started(o) == conn[o].attempts > 0

(* C1: for batch_size >= 1 on a reachable table of n rows, the batches of  *)
(* a fully consumed stream_users_in_batches(batch_size), concatenated in   *)
(* order, are the row sequence of a fully consumed stream_users(), and     *)
(* there are ceil(n / batch_size) of them.                                 *)
C1_BatchesReproduceStream ==
    (db = "ok" /\ batch_size >= 1 /\ sb.pc = "done" /\ su.pc = "done") =>
        /\ Flatten(sb.out) = su.out
        /\ su.out = table
        /\ Len(sb.out) = CeilDiv(Len(table), batch_size)

C1_Witness ==
    /\ db = "ok" /\ batch_size = 2 /\ Len(table) = 3
    /\ sb.pc = "done" /\ su.pc = "done"
    /\ Len(sb.out) = 2

(* C2: a consumer that takes one row of stream_users() over a table of     *)
(* more than one row and then closes or abandons the generator leaves the  *)
(* connection closed, its close() called exactly once.                     *)
C2_EarlyStopClosesConnection ==
    (su.pc = "closed" /\ Len(su.out) = 1 /\ Len(table) > 1) =>
        /\ conn["su"].closed = 1
        /\ ~IsOpen(conn["su"])

(* C9: stream_users_in_batches(batch_size) with batch_size <= 0 raises     *)
(* InvalidArgument at its first pull, before any connection is opened or   *)
(* any query is executed.                                                  *)
C9_NonPositiveBatchSizeRejected ==
    batch_size <= 0 =>
        /\ conn["sb"].attempts = 0
        /\ conn["sb"].queries = 0
        /\ (sb.pc \notin {"unstarted", "closed"} =>
                sb.pc = "failed" /\ sb.err = "InvalidArgument")

StreamOf(o) == IF o = "su" THEN su ELSE IF o = "sb" THEN sb ELSE sa

(* C10, as claimed: with the store unreachable or the database or table    *)
(* missing, each row stream raises ConnectionError to its caller after     *)
(* exactly one connection attempt.                                         *)
C10_ConnectionErrorSurfaced ==
    \A o \in {"su", "sb", "sa"} :
        (db # "ok" /\ Started(o)) =>
            /\ StreamOf(o).pc = "failed"
            /\ StreamOf(o).err = "ConnectionError"
            /\ conn[o].attempts = 1

(* C10, amended: with the store unreachable or the database missing,       *)
(* connect_to_prodev makes one attempt, prints a diagnostic and returns    *)
(* None, and each row stream ends with no element and no exception; with   *)
(* only the table missing the query's ProgrammingError reaches the caller  *)
(* at the first pull; no stream ever makes a second connection attempt.    *)
C10_ConnectionFailureEndsStream ==
    \A o \in {"su", "sb", "sa"} :
        /\ conn[o].attempts <= 1
        /\ (db \in {"unreachable", "no_database"} /\ Started(o)) =>
              /\ StreamOf(o).pc = "done"
              /\ StreamOf(o).out = << >>
              /\ StreamOf(o).err = "none"
              /\ conn[o].opened = 0
              /\ \E i \in 1..Len(stdout) : stdout[i].kind = "connect_error"
        /\ (db = "no_table" /\ Started(o)) =>
              /\ StreamOf(o).pc = "failed"
              /\ StreamOf(o).err = "ProgrammingError"
              /\ StreamOf(o).out = << >>

C10_Witness ==
    /\ db = "unreachable"
    /\ Started("su") /\ Started("sb") /\ Started("sa")
    /\ su.pc = "done" /\ sb.pc = "done" /\ sa.pc = "done"

----------------------------------------------------------------------------
(* Properties of batch_processing (specification SpecFilter) *)

Over25(r) == r.age > 25

(* C3: for batch_size >= 1 the multiset of rows batch_processing hands to  *)
(* its consumer is the multiset of the rows of the table with age > 25     *)
(* (age = 25 excluded), whatever the batch size.                           *)
C3_FilterProducesMatchingRows ==
    (bp.pc = "returned" /\ db = "ok" /\ batch_size >= 1) =>
        SeqBag(bp.out) = SeqBag(SelectSeq(table, Over25))

----------------------------------------------------------------------------
(* Properties of lazy_pagination (specifications SpecPage and SpecPull) *)

(* C4: for page_size >= 1 on a reachable, unchanging table, the pages of a *)
(* fully consumed lazy_pagination(page_size), concatenated in order, are   *)
(* the row sequence of a fully consumed stream_users().                    *)
C4_PagesReproduceStream ==
    (db = "ok" /\ page_size >= 1 /\ lp.pc = "done" /\ su.pc = "done") =>
        /\ Flatten(lp.out) = su.out
        /\ su.out = table

C4_Witness ==
    /\ db = "ok" /\ page_size = 2 /\ Len(table) = 3
    /\ lp.pc = "done" /\ su.pc = "done"
    /\ Len(lp.out) = 2

(* C5: for page_size >= 1 on a reachable, unchanging table of n rows, a    *)
(* consumer that keeps pulling reaches the end of lazy_pagination, and     *)
(* paginate_users has then been called at most ceil(n / page_size) + 1     *)
(* times.                                                                  *)
C5_PaginationTerminates ==
    (db = "ok" /\ page_size >= 1) ~>
        (/\ lp.pc = "done"
         /\ page_size >= 1
         /\ lp.calls <= CeilDiv(Len(table), page_size) + 1)

C5_Witness ==
    /\ db = "ok" /\ page_size = 2 /\ Len(table) = 3
    /\ lp.pc = "done" /\ lp.calls = 3

----------------------------------------------------------------------------
(* Properties of calculate_average_age (specification SpecAvg) *)

RECURSIVE SumAges(_)
SumAges(rows) == IF rows = << >> THEN 0 ELSE Head(rows).age + SumAges(Tail(rows))

AgesOf(rows) == [i \in 1..Len(rows) |-> rows[i].age]

LastPrint == stdout[Len(stdout)]

(* C6, as claimed: on a non-empty table calculate_average_age returns the  *)
(* number (sum of the streamed ages) / (number of streamed ages).          *)
C6_ReturnsAverage ==
    (caa.pc = "returned" /\ caa.count > 0) =>
        caa.ret = ReturnsNumber(SumAges(table), Len(table))

(* C6, amended: on a non-empty table calculate_average_age returns None    *)
(* and prints (sum of the streamed ages) / (number of streamed ages)       *)
(* rounded to two decimals: 28.50 for the ages 28, 34, 22, 30.             *)
C6_PrintsAverage ==
    (caa.pc = "returned" /\ caa.count > 0) =>
        /\ caa.ret = ReturnsNone
        /\ caa.count = Len(table)
        /\ caa.total = SumAges(table)
        /\ LastPrint.kind = "average"
        /\ LET h == LastPrint.hundredths
               d == 100 * SumAges(table) - h * Len(table)
           IN  /\ 2 * d <= Len(table)
               /\ -2 * d <= Len(table)
        /\ (AgesOf(table) = <<28, 34, 22, 30>> => LastPrint.hundredths = 2850)

C6_Witness ==
    /\ caa.pc = "returned"
    /\ AgesOf(table) = <<28, 34, 22, 30>>
    /\ LastPrint = [kind |-> "average", hundredths |-> 2850]

(* C7: when the age stream ends without a value, calculate_average_age     *)
(* does not divide, raises nothing, and reports "no users", a report that  *)
(* is no average (not even the average 0).                                 *)
C7_EmptyStreamReportsNoData ==
    (sa.pc = "done" /\ sa.out = << >>) =>
        /\ caa.pc = "returned"
        /\ caa.err = "none"
        /\ ~caa.divided
        /\ caa.count = 0
        /\ LastPrint = [kind |-> "no_users"]
        /\ \A i \in 1..Len(stdout) : stdout[i].kind # "average"

C7_Witness ==
    /\ db = "ok" /\ table = << >>
    /\ sa.pc = "done" /\ caa.pc = "returned"
    /\ LastPrint.kind = "no_users"

----------------------------------------------------------------------------
(* Properties of insert_data (specification SpecSeed) *)

NumericAge(text) == text \in {"30", "25.7"}

(* C8: loading the same file twice is idempotent: after the first load     *)
(* every row of the file with a numeric age is in the table (itself, or    *)
(* the row with its user_id or email that was there before it), no         *)
(* user_id and no email occurs twice, the second load inserts no row, and  *)
(* the table after the second load is the table after the first.           *)
C8_LoadIsIdempotent ==
    (Len(loads) = 2 /\ loads[1].found) =>
        LET t1 == loads[1].visible
            t2 == loads[2].visible
        IN  /\ \A i \in 1..Len(csv.rows) :
                  NumericAge(csv.rows[i].age) =>
                      \E j \in 1..Len(t1) :
                          \/ t1[j].email = csv.rows[i].email
                          \/ csv.rows[i].user_id # 0 /\ t1[j].user_id = csv.rows[i].user_id
            /\ \A j, k \in 1..Len(t1) :
                  j # k => t1[j].email # t1[k].email /\ t1[j].user_id # t1[k].user_id
            /\ loads[2].inserted = << >>
            /\ t2 = t1

----------------------------------------------------------------------------
(* Release of the row streams' resources (specification Spec) *)

RowStreams == {"su", "sb", "sa"}

(* C11: when a row stream fails after its connection was opened, its       *)
(* cursor and its connection are closed by the time the error has reached  *)
(* the consumer.                                                           *)
C11_ErrorPathReleases ==
    \A o \in RowStreams :
        StreamOf(o).pc = "failed" =>
            /\ ~IsOpen(conn[o])
            /\ conn[o].cursorsClosed = conn[o].cursors

Delivered(o) == IF o = "sb" THEN Flatten(sb.out) ELSE StreamOf(o).out

Expected(o) == IF o = "sa" THEN AgesOf(table) ELSE table

C12_Closed(o) ==
    /\ conn[o].opened <= 1
    /\ conn[o].closed <= 1
    /\ conn[o].cursorsClosed <= 1
    /\ (StreamOf(o).pc = "done" /\ conn[o].opened = 1) =>
          /\ conn[o].closed = 1
          /\ conn[o].cursors = 1
          /\ conn[o].cursorsClosed = 1
    /\ (conn[o].closed = 1 \/ conn[o].cursorsClosed = 1) =>
          /\ StreamOf(o).pc = "done"
          /\ Delivered(o) = Expected(o)

C12_Final ==
    /\ su.pc = "done" => su' = su /\ conn'["su"] = conn["su"]
    /\ sb.pc = "done" => sb' = sb /\ conn'["sb"] = conn["sb"]
    /\ sa.pc = "done" => sa' = sa /\ conn'["sa"] = conn["sa"]

(* C12: a row stream pulled to exhaustion closes its cursor and its        *)
(* connection exactly once, only after its last element was yielded, and   *)
(* afterwards neither opens a connection nor yields again.                 *)
C12_StreamLifecycle == [](\A o \in RowStreams : C12_Closed(o)) /\ [][C12_Final]_vars

C12_Witness ==
    /\ db = "ok" /\ Len(table) = 2
    /\ su.pc = "done" /\ sa.pc = "done"
    /\ conn["su"].closed = 1 /\ conn["sa"].cursorsClosed = 1

(* C13: abandoning stream_users_in_batches after at least one batch and    *)
(* before exhaustion releases its cursor and its connection exactly once,  *)
(* and the rows buffered for the unfinished batch are never yielded.       *)
C13_AbandonedBatchesRelease ==
    (sb.pc = "closed" /\ Len(sb.out) >= 1) =>
        /\ conn["sb"].closed = 1
        /\ conn["sb"].cursorsClosed = 1
        /\ Len(Flatten(sb.out)) <= sb.pos

(* C14: for batch_size >= 1 every yielded batch has between 1 and          *)
(* batch_size rows, every batch but the last has exactly batch_size, and   *)
(* when the table size is a multiple of batch_size no short or empty       *)
(* batch ends the stream.                                                  *)
C14_BatchLengths ==
    (db = "ok" /\ batch_size >= 1) =>
        /\ \A i \in 1..Len(sb.out) :
              /\ Len(sb.out[i]) >= 1
              /\ Len(sb.out[i]) <= batch_size
              /\ i < Len(sb.out) => Len(sb.out[i]) = batch_size
        /\ (sb.pc = "done" /\ Len(table) % batch_size = 0) =>
              \A i \in 1..Len(sb.out) : Len(sb.out[i]) = batch_size

C14_Witness ==
    /\ db = "ok" /\ batch_size = 2 /\ Len(table) = 3
    /\ sb.pc = "yield31"
    /\ Len(sb.out) = 2 /\ Len(sb.out[2]) = 1

----------------------------------------------------------------------------
(* Pages of lazy_pagination (specification SpecPage) *)

(* C15: every page lazy_pagination yields has between 1 and page_size      *)
(* rows; the first empty page paginate_users returns ends the sequence     *)
(* and is not yielded.                                                     *)
C15_NoEmptyPage ==
    /\ \A i \in 1..Len(lp.out) :
          Len(lp.out[i]) >= 1 /\ Len(lp.out[i]) <= page_size
    /\ lp.pc = "done" =>
          /\ lp.calls = Len(lp.out) + 1
          /\ LimitOffset(page_size, lp.offset) = << >>

C15_Witness ==
    /\ db = "ok" /\ page_size = 2 /\ Len(table) = 2
    /\ lp.pc = "done"
    /\ Len(lp.out) = 1 /\ lp.calls = 2

(* Cursors that can still be used: created, not closed, on a connection    *)
(* that is still open.                                                     *)
LiveCursors(c) == IF IsOpen(c) THEN c.cursors - c.cursorsClosed ELSE 0

(* C16: while lazy_pagination is suspended at its yield, and once it has   *)
(* ended or was closed there, every connection paginate_users opened has   *)
(* been closed, one per call, and no cursor of it is still usable.         *)
C16_NothingHeldBetweenPages ==
    lp.pc \in {"suspended", "done", "closed"} =>
        /\ conn["lp"].opened = lp.calls
        /\ conn["lp"].closed = conn["lp"].opened
        /\ ~IsOpen(conn["lp"])
        /\ LiveCursors(conn["lp"]) = 0

C16_Witness ==
    /\ db = "ok" /\ page_size = 1 /\ Len(table) = 3
    /\ lp.pc = "suspended"
    /\ Len(lp.out) = 2 /\ conn["lp"].closed = 2

----------------------------------------------------------------------------
(* Rows insert_data skips (specifications SpecSeed and SpecSeedAny) *)

HasRowFor(rows, line) ==
    \E j \in 1..Len(rows) :
        \/ rows[j].email = line.email
        \/ line.user_id # 0 /\ rows[j].user_id = line.user_id

(* C17: a line whose age is missing or is no number is skipped, never      *)
(* inserted, and the load goes on: it ends without an exception, commits,  *)
(* and every line of the file with a numeric age is then in the table      *)
(* (itself, or the earlier row that has its user_id or email).             *)
C17_BadAgeSkippedLoadContinues ==
    \A k \in 1..Len(loads) :
        loads[k].found =>
            /\ loads[k].exc = "none"
            /\ loads[k].committed
            /\ \A i \in 1..Len(csv.rows) :
                  NumericAge(csv.rows[i].age) => HasRowFor(loads[k].table, csv.rows[i])
            /\ \A j \in 1..Len(loads[k].inserted) : loads[k].inserted[j].age \in {25, 30}

NoDuplicates(rows) ==
    \A j, k \in 1..Len(rows) :
        j # k => rows[j].user_id # rows[k].user_id /\ rows[j].email # rows[k].email

IsPrefix(a, b) == Len(a) <= Len(b) /\ SubSeq(b, 1, Len(a)) = a

(* C18: after any sequence of loads of any files no two rows of the table  *)
(* share a user_id or an email; a load leaves the rows it found unchanged  *)
(* and inserts no row whose user_id or email it found.                     *)
C18_UniqueIdsAndEmails ==
    /\ NoDuplicates(table \o pending)
    /\ \A k \in 1..Len(loads) :
          /\ NoDuplicates(loads[k].visible)
          /\ IsPrefix(loads[k].before, loads[k].visible)
          /\ \A j \in 1..Len(loads[k].inserted) :
                ~HasRowFor(loads[k].before, loads[k].inserted[j])

C18_Witness ==
    /\ Len(loads) = 2
    /\ loads[1].inserted # << >>
    /\ loads[2].inserted # << >>
    /\ Len(table) = 2
    /\ Len(csv.rows) = 2 /\ csv.rows[1].email = csv.rows[2].email

----------------------------------------------------------------------------
(* Independent pipeline instances (specification SpecTwo) *)

(* What lazy_pagination(page_size) has yielded after its first pages when  *)
(* nothing else runs.                                                      *)
PagesAlone(k) == [i \in 1..k |-> LimitOffset(page_size, (i - 1) * page_size)]

C19_AsAlone ==
    /\ su.out = SubSeq(table, 1, su.pos)
    /\ su2.out = SubSeq(table, 1, su2.pos)
    /\ lp.out = PagesAlone(Len(lp.out))
    /\ (db = "ok" /\ su.pc = "done") => su.out = table
    /\ (db = "ok" /\ su2.pc = "done") => su2.out = table
    /\ (db = "ok" /\ page_size >= 1 /\ lp.pc = "done") => Flatten(lp.out) = table

C19_Frame ==
    /\ (su' # su \/ conn'["su"] # conn["su"]) =>
          /\ su2' = su2 /\ conn'["su2"] = conn["su2"]
          /\ lp' = lp /\ conn'["lp"] = conn["lp"]
    /\ (su2' # su2 \/ conn'["su2"] # conn["su2"]) =>
          /\ su' = su /\ conn'["su"] = conn["su"]
          /\ lp' = lp /\ conn'["lp"] = conn["lp"]
    /\ (lp' # lp \/ conn'["lp"] # conn["lp"]) =>
          /\ su' = su /\ conn'["su"] = conn["su"]
          /\ su2' = su2 /\ conn'["su2"] = conn["su2"]

(* C19: two stream_users passes and a lazy_pagination sequence whose pulls *)
(* are interleaved each yield what they yield when run alone, and a step   *)
(* of one (a pull, its exhaustion, a close) changes neither the state nor  *)
(* the connection of another.                                              *)
C19_InstancesIndependent == []C19_AsAlone /\ [][C19_Frame]_vars

C19_Witness ==
    /\ db = "ok" /\ Len(table) = 3 /\ page_size = 2
    /\ su.pc = "done" /\ conn["su"].closed = 1
    /\ su2.pc = "suspended" /\ Len(su2.out) = 1 /\ IsOpen(conn["su2"])
    /\ lp.pc = "suspended" /\ Len(lp.out) = 1

(* C20: batch_processing hands each user with age > 25 to its consumer,    *)
(* one by one, in the order of the underlying stream.                      *)
C20_FilterYieldsInOrder ==
    (bp.pc = "returned" /\ db = "ok") => bp.out = SelectSeq(table, Over25)

----------------------------------------------------------------------------
(* Pagination: argument check, demand, failure (specification SpecPage) *)

(* C21: lazy_pagination(page_size) with page_size <= 0 raises              *)
(* InvalidArgument at its first pull, before any connection is opened or   *)
(* any query is issued; it does not end as an empty sequence.              *)
C21_NonPositivePageSizeRejected ==
    page_size <= 0 =>
        /\ conn["lp"].attempts = 0
        /\ conn["lp"].queries = 0
        /\ (lp.pc \notin {"unstarted", "closed"} =>
                lp.pc = "failed" /\ lp.err = "InvalidArgument")

C24_Demand ==
    /\ lp.calls <= lp.pulls
    /\ lp.calls >= 1 => lp.offset = (lp.calls - 1) * page_size
    /\ lp.calls = 0 => lp.offset = 0

C24_Advance ==
    LET called == lp'.calls # lp.calls
        moved == lp'.offset # lp.offset
    IN  /\ called => /\ lp'.calls = lp.calls + 1
                     /\ lp'.pulls = lp.pulls + 1
                     /\ lp'.offset = lp.calls * page_size
        /\ moved => /\ lp.pc = "suspended"
                    /\ lp.out # << >> /\ lp.out[Len(lp.out)] # << >>
                    /\ lp'.pulls = lp.pulls + 1
                    /\ lp'.offset = lp.offset + page_size

(* C24: the k-th paginate_users call uses offset (k-1) * page_size, the    *)
(* offset moves (by page_size) only in a pull that follows the yield of a  *)
(* non-empty page, and the calls made never outnumber the pulls issued.    *)
C24_DemandDriven == []C24_Demand /\ [][C24_Advance]_vars

C24_Witness ==
    /\ db = "ok" /\ page_size = 2 /\ Len(table) = 3
    /\ lp.pc = "suspended" /\ lp.pulls = 2 /\ lp.calls = 2 /\ lp.offset = 2

(* C27: when paginate_users raises after its connection was opened, that   *)
(* connection is closed by the time the error reaches the consumer.        *)
C27_FailedPageReleasesConnection ==
    (lp.pc = "failed" /\ conn["lp"].opened >= 1) => ~IsOpen(conn["lp"])

----------------------------------------------------------------------------
(* Batches: buffer size and ownership (specification Spec) *)

(* C25: the buffer of stream_users_in_batches(batch_size) never holds      *)
(* more than batch_size rows, whatever the size of the table.              *)
C25_BufferBounded ==
    LET bound == IF batch_size > 0 THEN batch_size ELSE 0 IN
    /\ Len(sb.batch) <= bound
    /\ \A i \in 1..Len(sb.out) : Len(sb.out[i]) <= bound

C28_Kept ==
    /\ Len(sb'.out) >= Len(sb.out)
    /\ \A i \in 1..Len(sb.out) : sb'.out[i] = sb.out[i]

(* C28: a batch that was yielded keeps its contents and its length in      *)
(* every later step; rows read after the yield go to a new buffer.         *)
C28_YieldedBatchUnchanged == [][C28_Kept]_vars

C28_Witness ==
    /\ db = "ok" /\ batch_size = 1 /\ Len(table) = 3
    /\ sb.pc = "done" /\ Len(sb.out) = 3
    /\ sb.out[1] = << table[1] >> /\ sb.batch = << >>

----------------------------------------------------------------------------
(* insert_data: one commit, at the end (specification SpecSeed) *)

InTable(row, rows) == \E i \in 1..Len(rows) : rows[i] = row

(* C29: a call of insert_data commits only once its loop has run over      *)
(* every row; a call that an exception ended has committed nothing,        *)
(* returned to its caller with the error printed, and none of the rows it  *)
(* inserted is in the committed table when it returns.                     *)
C29_CommitOnlyAfterAllRows ==
    \A k \in 1..Len(loads) :
        /\ loads[k].committed <=> (loads[k].found /\ loads[k].exc = "none")
        /\ loads[k].exc # "none" =>
              /\ \A j \in 1..Len(loads[k].inserted) :
                    ~InTable(loads[k].inserted[j], loads[k].table)
              /\ \E n \in 1..Len(stdout) : stdout[n].kind = "error_inserting"
        /\ ~loads[k].found => loads[k].inserted = << >>

C29_Witness ==
    \E k \in 1..Len(loads) :
        /\ loads[k].exc # "none"
        /\ loads[k].inserted # << >>
        /\ ~loads[k].committed

----------------------------------------------------------------------------
(* stream_user_data: the cursor is its own, the connection the caller's   *)
(* (specification SpecUserData)                                            *)

C30_CursorClosedOnce ==
    LET c == conn["sud"] IN
        /\ sud.pc = "unstarted" => c.cursors = 0 /\ c.cursorsClosed = 0
        /\ sud.pc = "suspended" => c.cursors = 1 /\ c.cursorsClosed = 0
        /\ sud.pc \in {"done", "failed"} => c.cursors = 1 /\ c.cursorsClosed = 1
        /\ sud.pc = "closed" => c.cursors \in {0, 1} /\ c.cursorsClosed = c.cursors
        /\ c.closed = 0 /\ c.opened = 0 /\ c.attempts = 0
        /\ IsOpen(conn["seed"])

C30_CallerKeepsConnection ==
    sud' # sud =>
        /\ table' = table /\ pending' = pending
        /\ conn'["seed"] = conn["seed"]

(* C30: stream_user_data closes the cursor it created exactly once on      *)
(* exhaustion, on close() at the yield and on an error of execute or of    *)
(* the iteration, and it neither closes nor commits the caller's           *)
(* connection.                                                             *)
C30_OwnCursorOnly == []C30_CursorClosedOnce /\ [][C30_CallerKeepsConnection]_vars

C30_Witness ==
    /\ sud.pc = "closed" /\ Len(sud.out) = 1 /\ Len(Visible) >= 2
    /\ pending # << >>
    /\ conn["sud"].cursors = 1 /\ conn["sud"].cursorsClosed = 1

----------------------------------------------------------------------------
(* Pagination under concurrent writes (specification SpecWrites) *)

Yielded == Flatten(lp.out)

(* A row that was in the table in every state of the run and is in no page *)
SkippedRow(r) ==
    /\ r.user_id \notin touched
    /\ \A i \in 1..Len(Yielded) : Yielded[i] # r

(* A row that was in the table in every state of the run and is in two pages *)
RepeatedRow(r) ==
    /\ r.user_id \notin touched
    /\ \E p, q \in 1..Len(lp.out) :
          /\ p # q
          /\ \E i \in 1..Len(lp.out[p]) : lp.out[p][i] = r
          /\ \E j \in 1..Len(lp.out[q]) : lp.out[q][j] = r

C26_FreshQuery ==
    lp' # lp =>
        /\ table' = table
        /\ lp'.offset = lp.pulls * page_size
        /\ lp'.pc = "suspended" =>
              lp'.out = Append(lp.out, LimitOffset(page_size, lp'.offset))
        /\ lp'.pc = "done" =>
              lp'.out = lp.out /\ LimitOffset(page_size, lp'.offset) = << >>

(* C26: every page is the LIMIT/OFFSET window of the table as it is when   *)
(* the page is asked for, at an offset that depends on the number of       *)
(* earlier pages alone; so with inserts and deletes of another process     *)
(* between the pages, runs in which a row that stayed in the table is in   *)
(* no page and runs in which such a row is in two pages both exist.        *)
C26_PagesFollowLiveTable == [][C26_FreshQuery]_vars

C26_Witness ==
    /\ lp.pc = "done"
    /\ \E i \in 1..Len(table) : SkippedRow(table[i])
    /\ \E j \in 1..Len(table) : RepeatedRow(table[j])

----------------------------------------------------------------------------
(* The with-statement (specification SpecWith) *)

InLog(x, log) == \E i \in 1..Len(log) : log[i] = x

Before(x, y, log) ==
    \E i, j \in 1..Len(log) : i < j /\ log[i] = x /\ log[j] = y

(* C22: once __enter__ has succeeded, leaving the with-block closes the    *)
(* cursor and the connection once each, commits iff the block raised       *)
(* nothing and rolls back iff it raised, does so before the close, and     *)
(* lets the block's exception through to the caller.                       *)
C22_ExitCommitsOrRollsBackThenCloses ==
    cm.pc = "exited" =>
        /\ cm.cursorsClosed = 1
        /\ cm.closed = 1 /\ cm.opened = 1
        /\ cm.block = "none" =>
              /\ InLog("commit", cm.exitlog) /\ ~InLog("rollback", cm.exitlog)
              /\ Before("commit", "close", cm.exitlog)
              /\ cm.raised = "none"
        /\ cm.block # "none" =>
              /\ InLog("rollback", cm.exitlog) /\ ~InLog("commit", cm.exitlog)
              /\ Before("rollback", "close", cm.exitlog)
              /\ cm.raised = cm.block

----------------------------------------------------------------------------
(* Decorated calls (specification SpecTx) *)

Count(x, log) == Cardinality({i \in 1..Len(log) : log[i] = x})

Called == tx.calls >= 1 /\ tx.opened = 1

C23_EveryCallCommitsOrRollsBack ==
    Called =>
        /\ tx.f = "return" => tx.log = << "commit", "close" >> /\ tx.raised = "none"
        /\ tx.f # "return" => tx.log = << "rollback", "close" >> /\ tx.raised = tx.f

(* C23: a call of with_db_connection(transactional(f)) closes its          *)
(* connection exactly once and last.  It calls commit iff f returned, and  *)
(* the data is kept iff that commit succeeded; it rolls back iff f raised  *)
(* an exception deriving from Exception or the commit raised; when f       *)
(* raises KeyboardInterrupt or SystemExit neither is called and the close  *)
(* discards the changes.  What f (or the commit) raised reaches the caller. *)
C23_CommitOrRollbackThenClose ==
    Called =>
        /\ Count("close", tx.log) = 1 /\ tx.log[Len(tx.log)] = "close"
        /\ (InLog("commit", tx.log) \/ InLog("commit_raised", tx.log)) <=> tx.f = "return"
        /\ InLog("rollback", tx.log) <=>
              (tx.f \in FExceptions \/ InLog("commit_raised", tx.log))
        /\ ~(InLog("commit", tx.log) /\ InLog("rollback", tx.log))
        /\ tx.f \in FBaseExceptions => tx.log = << "close" >>
        /\ tx.f # "return" => tx.raised = tx.f
        /\ InLog("commit_raised", tx.log) => tx.raised = "OperationalError"
        /\ tx.raised = "none" <=> InLog("commit", tx.log)
        /\ lite.rows = tx.before + (IF InLog("commit", tx.log) THEN tx.writes ELSE 0)

C23_Witness ==
    /\ Called
    /\ tx.f = "SystemExit" /\ tx.writes > 0
    /\ tx.log = << "close" >> /\ tx.raised = "SystemExit"

====
